---- MODULE Spec2Model ----
(***************************************************************************)
(* Streaming text decoder of the rewriter: TextDecoder (feed_text,         *)
(* flush_pending, split_utf8_start) over a SharedEncoding slot, together   *)
(* with the sink (output_handler) it drives.                               *)
(*                                                                         *)
(* Text is represented by its UTF-8 bytes.  The codec operations the       *)
(* decoder consumes (std::str::from_utf8, Encoding::ascii_valid_up_to,     *)
(* Decoder::decode_to_str) are written out for the byte classes of Bytes:  *)
(* ASCII, a two-byte UTF-8 lead and a UTF-8 continuation byte.             *)
(***************************************************************************)
EXTENDS Integers, Sequences, FiniteSets

\* ------------------------------------------------------------------ bounds
\* Capacity of text_buffer.  The program allocates 1024 bytes; the model
\* keeps the comparisons against the capacity and scales the number.
TextBufferLen == 3
\* Largest number of bytes fed within one segment.
MaxSegLen == 4
\* Largest number of feed_text calls within one segment.
MaxCalls == 2

\* ------------------------------------------------------- encodings, bytes
UTF_8 == "UTF-8"
WINDOWS_1252 == "windows-1252"
\* The ASCII-compatible encodings a SharedEncoding may hold.
Encodings == {UTF_8, WINDOWS_1252}

\* 0x61 'a', 0xC3 (lead of a two-byte UTF-8 sequence), 0xA9 (continuation).
Bytes == {97, 195, 169}

IsAscii(b) == b < 128
IsLead2(b) == b >= 194 /\ b <= 223
IsCont(b) == b >= 128 /\ b <= 191

\* U+FFFD in UTF-8, written by the codec for a malformed sequence.
REPLACEMENT == <<239, 191, 189>>
\* Output room the codec wants before it handles a non-ASCII unit.
MaxUnit == Len(REPLACEMENT)

\* windows-1252 byte 0xA0..0xFF is the code point of the same number.
Latin1(b) == <<192 + (b \div 64), 128 + (b % 64)>>

BoundedSeq(S, n) == UNION {[1..k -> S] : k \in 0..n}

Drop(s, n) == SubSeq(s, n + 1, Len(s))
Take(s, n) == SubSeq(s, 1, n)

\* ------------------------------------------------------------ the codec
\* std::str::from_utf8(raw).map_err(|e| e.valid_up_to()): length of the
\* longest valid UTF-8 prefix, scanning from offset i.
RECURSIVE utf8_valid_up_to(_, _)
utf8_valid_up_to(raw, i) ==
    IF i >= Len(raw) THEN i
    ELSE IF IsAscii(raw[i + 1]) THEN utf8_valid_up_to(raw, i + 1)
    ELSE IF IsLead2(raw[i + 1]) /\ i + 2 <= Len(raw) /\ IsCont(raw[i + 2])
         THEN utf8_valid_up_to(raw, i + 2)
    ELSE i

\* Encoding::ascii_valid_up_to(raw): length of the longest ASCII prefix.
RECURSIVE ascii_valid_up_to(_, _)
ascii_valid_up_to(raw, i) ==
    IF i >= Len(raw) THEN i
    ELSE IF IsAscii(raw[i + 1]) THEN ascii_valid_up_to(raw, i + 1)
    ELSE i

InputEmpty == "InputEmpty"
OutputFull == "OutputFull"

\* encoding.new_decoder_without_bom_handling(): nothing buffered yet.
new_decoder(enc) == [enc |-> enc, buf |-> <<>>]

CoderResult(status, read, out, dec) ==
    [status |-> status, read |-> read, written |-> out, dec |-> dec]

\* Decoder::decode_to_str(src, dst, last) with dst of cap bytes: decodes
\* from offset i with out already written; malformed sequences become
\* U+FFFD; an incomplete sequence at the end of src stays buffered in the
\* decoder unless last.
RECURSIVE decode_from(_, _, _, _, _, _)
decode_from(dec, src, i, out, cap, last) ==
    LET space == cap - Len(out) IN
    IF i >= Len(src) THEN
        IF dec.buf # <<>> /\ last THEN
            IF space < MaxUnit THEN CoderResult(OutputFull, i, out, dec)
            ELSE CoderResult(InputEmpty, i, out \o REPLACEMENT,
                             [dec EXCEPT !.buf = <<>>])
        ELSE CoderResult(InputEmpty, i, out, dec)
    ELSE
        LET b == src[i + 1] IN
        IF dec.buf # <<>> THEN
            IF space < MaxUnit THEN CoderResult(OutputFull, i, out, dec)
            ELSE IF IsCont(b) THEN
                decode_from([dec EXCEPT !.buf = <<>>], src, i + 1,
                            out \o dec.buf \o <<b>>, cap, last)
            ELSE
                decode_from([dec EXCEPT !.buf = <<>>], src, i,
                            out \o REPLACEMENT, cap, last)
        ELSE IF IsAscii(b) THEN
            IF space < 1 THEN CoderResult(OutputFull, i, out, dec)
            ELSE decode_from(dec, src, i + 1, out \o <<b>>, cap, last)
        ELSE IF space < MaxUnit THEN CoderResult(OutputFull, i, out, dec)
        ELSE IF dec.enc = UTF_8 THEN
            IF IsLead2(b) THEN
                decode_from([dec EXCEPT !.buf = <<b>>], src, i + 1, out, cap, last)
            ELSE
                decode_from(dec, src, i + 1, out \o REPLACEMENT, cap, last)
        ELSE
            decode_from(dec, src, i + 1, out \o Latin1(b), cap, last)

decode_to_str(dec, src, cap, last) == decode_from(dec, src, 0, <<>>, cap, last)

\* ------------------------------------------------------------ the state
VARIABLES
    shared,             \* SharedEncoding: the encoding held by the atomic slot
    pending,            \* pending_text_streaming_decoder: <<>> or <<decoder>>
    pc,                 \* "idle", or where the call in progress stands:
                        \*   "slow" before get_or_insert_with, "loop" at the loop head
    raw_input,          \* feed_text: the bytes not yet handed to the codec
    last_in_text_node,  \* feed_text: the argument of the call in progress
    encoding,           \* feed_text: the local read from the slot at entry
    result,             \* what the latest call returned: "none", "ok", an error, "panic"
    sinkLog,            \* the invocations of output_handler by the latest call
    call,               \* the latest call: its kind, arguments and entry state
    seg,                \* the current segment: bytes fed, calls made, text emitted,
                        \*   invocations with is_last seen, whether over
    slotLog             \* the encodings given to SharedEncoding::new and set so far,
                        \*   and the one given most recently

vars == <<shared, pending, pc, raw_input, last_in_text_node, encoding,
          result, sinkLog, call, seg, slotLog>>

\* The errors a sink may return.
SinkErrors == {"E1", "E2"}

SinkResults == {"ok"} \cup SinkErrors

None == <<>>
Some(d) == <<d>>

\* ------------------------------------------------------ TextDecoder parts
\* split_utf8_start: [some |-> FALSE] for None, else the text to emit and
\* the remaining bytes.
NoSplit == [some |-> FALSE, text |-> <<>>, rest |-> <<>>]
Split(text, rest) == [some |-> TRUE, text |-> text, rest |-> rest]

\* split_utf8_start splitting one byte too far: the first byte after the
\* valid prefix is dropped from the rest.
split_utf8_start_skip(raw, enc, pend) ==
    IF pend # None THEN NoSplit
    ELSE
        LET valid_up_to == IF enc = UTF_8 THEN utf8_valid_up_to(raw, 0)
                           ELSE ascii_valid_up_to(raw, 0)
            is_ok == enc = UTF_8 /\ valid_up_to = Len(raw)
        IN  IF is_ok THEN Split(raw, <<>>)
            ELSE IF valid_up_to # Len(raw) /\ valid_up_to < TextBufferLen THEN NoSplit
            ELSE Split(Take(raw, valid_up_to), Drop(raw, valid_up_to + 1))

\* split_utf8_start without the check for a pending decoder.
split_utf8_start_unguarded(raw, enc, pend) ==
    LET valid_up_to == IF enc = UTF_8 THEN utf8_valid_up_to(raw, 0)
                       ELSE ascii_valid_up_to(raw, 0)
        is_ok == enc = UTF_8 /\ valid_up_to = Len(raw)
    IN  IF is_ok THEN Split(raw, <<>>)
        ELSE IF valid_up_to # Len(raw) /\ valid_up_to < TextBufferLen THEN NoSplit
        ELSE Split(Take(raw, valid_up_to), Drop(raw, valid_up_to))

\* split_utf8_start without the comparison against the buffer length.
split_utf8_start_any_prefix(raw, enc, pend) ==
    IF pend # None THEN NoSplit
    ELSE
        LET valid_up_to == IF enc = UTF_8 THEN utf8_valid_up_to(raw, 0)
                           ELSE ascii_valid_up_to(raw, 0)
        IN  Split(Take(raw, valid_up_to), Drop(raw, valid_up_to))

split_utf8_start(raw, enc, pend) ==
    IF pend # None THEN NoSplit
    ELSE
        LET valid_up_to == IF enc = UTF_8 THEN utf8_valid_up_to(raw, 0)
                           ELSE ascii_valid_up_to(raw, 0)
            is_ok == enc = UTF_8 /\ valid_up_to = Len(raw)
        IN  IF is_ok THEN Split(raw, <<>>)
            ELSE IF valid_up_to # Len(raw) /\ valid_up_to < TextBufferLen THEN NoSplit
            ELSE Split(Take(raw, valid_up_to), Drop(raw, valid_up_to))

\* A sink error on the last chunk that discards the decoder.
pending_after_error_cleanup(dec, last) == IF last THEN None ELSE Some(dec)

\* The sink's error leaves the loop through `?`: the decoder, advanced by
\* the decode_to_str just made, stays in pending_text_streaming_decoder.
pending_after_error(dec, last) == Some(dec)

\* The loop never taking the codec's status for the end of the input.
is_finished_decoding_never(status) == FALSE

\* line 64: finished_decoding
is_finished_decoding(status) == status = InputEmpty

\* The loop decoding the same input again.
advance_stuck(raw, read) == raw

\* line 85: raw_input = raw_input.get(read..).unwrap_or_default()
advance(raw, read) == Drop(raw, read)

\* really_last of the fast path with the emptiness test inverted
fast_really_last_inverted(last, rest) == last /\ rest # <<>>

\* line 45: really_last of the fast path
fast_really_last(last, rest) == last /\ rest = <<>>

\* the loop invoking the sink in every iteration
loop_emits_always(written, last) == TRUE

\* the loop invoking the sink only when text was written
loop_emits_written_only(written, last) == Len(written) > 0

\* line 66: whether an iteration of the loop invokes the sink
loop_emits(written, last) == Len(written) > 0 \/ last

\* really_last of the loop without the test for finished decoding
loop_really_last_every_time(last, finished_decoding) == last

\* line 69: really_last of the loop
loop_really_last(last, finished_decoding) == last /\ finished_decoding

\* a sink result that is dropped instead of propagated
propagates_never(r) == FALSE

\* the `?` after a sink invocation: an error ends the call
propagates(r) == r # "ok"

\* the fast path falling through to the loop after the last invocation
fast_returns_never(really_last) == FALSE

\* line 49: whether the fast path ends the call
fast_returns(really_last) == really_last

\* the sink handed whatever the slot holds at the time of the invocation
sink_encoding_reread(enc) == shared

\* lines 47, 75: the encoding handed to the sink, enc being the local of line 41
sink_encoding(enc) == enc

\* a finished decode that never drops the pending decoder
clears_pending_never(last) == FALSE

\* a finished decode that always drops the pending decoder
clears_pending_always(last) == TRUE

\* line 80: whether a finished decode drops the pending decoder
clears_pending(last) == last

\* flush_pending feeding the empty last chunk unconditionally
flush_feeds_always(pend) == TRUE

\* line 28: whether flush_pending feeds the empty last chunk
flush_feeds(pend) == pend # None

\* One invocation of output_handler: its arguments and what it returned.
Invocation(text, is_last, enc, r) ==
    [text |-> text, is_last |-> is_last, enc |-> enc, res |-> r]

FreshCall == [kind |-> "none", prev |-> "none", input |-> <<>>, last |-> FALSE,
              pendingAtEntry |-> FALSE, sharedAtEntry |-> shared]
FreshSegment == [bytes |-> <<>>, calls |-> 0, over |-> FALSE, encs |-> {},
                 text |-> <<>>, lasts |-> 0, endsLast |-> FALSE, lastOk |-> FALSE,
                 failed |-> FALSE]

\* The segment record after the invocation inv: the text is appended, and
\* the invocations with is_last are counted as none, one or more than one;
\* lastOk tells whether inv had is_last and returned success.
Emitted(sg, inv) ==
    [sg EXCEPT !.text = @ \o inv.text,
               !.lasts = IF inv.is_last THEN (IF @ = 0 THEN 1 ELSE 2) ELSE @,
               !.endsLast = inv.is_last,
               !.lastOk = inv.is_last /\ inv.res = "ok",
               !.failed = @ \/ inv.res # "ok"]

\* ------------------------------------------------------------ the actions
Init ==
    /\ shared \in Encodings
    /\ pending = None
    /\ pc = "idle"
    /\ raw_input = <<>>
    /\ last_in_text_node = FALSE
    /\ encoding = shared
    /\ result = "none"
    /\ sinkLog = <<>>
    /\ call = FreshCall
    /\ seg = FreshSegment
    /\ slotLog = [stored |-> {shared}, latest |-> shared]

\* SharedEncoding::get: the load of the slot
get == shared

\* set that stores the default encoding whatever it is given
Set_default(e) ==
    /\ shared' = UTF_8
    /\ slotLog' = [stored |-> slotLog.stored \cup {e}, latest |-> e]
    /\ UNCHANGED <<pending, pc, raw_input, last_in_text_node, encoding,
                   result, sinkLog, call, seg>>

\* set whose store is lost
Set_lost(e) ==
    /\ shared' = shared
    /\ slotLog' = [stored |-> slotLog.stored \cup {e}, latest |-> e]
    /\ UNCHANGED <<pending, pc, raw_input, last_in_text_node, encoding,
                   result, sinkLog, call, seg>>

\* SharedEncoding::set, from the sink callback or from another thread
\* (through any clone of the handle: the clones share the one slot).
Set(e) ==
    /\ shared' = e
    /\ slotLog' = [stored |-> slotLog.stored \cup {e}, latest |-> e]
    /\ UNCHANGED <<pending, pc, raw_input, last_in_text_node, encoding,
                   result, sinkLog, call, seg>>

\* A call returns r; the segment is over when the call was its last chunk,
\* and a caller that sees an error abandons the segment.
Return(r, last, sg) ==
    /\ pc' = "idle"
    /\ result' = r
    /\ raw_input' = <<>>
    /\ seg' = [sg EXCEPT !.over = last \/ r # "ok"]

\* feed_text lines 41-57 on input/last, entered by kind ("feed" or "flush");
\* sg is the segment record with this call counted.  Where the fast path
\* has invoked the sink, get_or_insert_with is a step of its own.
Enter(kind, input, last, sg) ==
    LET enc == get
        s == split_utf8_start(input, enc, pending)
        really_last == fast_really_last(last, s.rest)
    IN  /\ encoding' = enc
        /\ last_in_text_node' = last
        /\ call' = [kind |-> kind, prev |-> call.kind, input |-> input, last |-> last,
                    pendingAtEntry |-> pending # None, sharedAtEntry |-> shared]
        /\ UNCHANGED <<shared, slotLog>>
        /\ IF s.some
           THEN \E r \in SinkResults :
                  LET inv == Invocation(s.text, really_last, sink_encoding(enc), r) IN
                  /\ sinkLog' = <<inv>>
                  /\ UNCHANGED pending
                  /\ IF propagates(r)
                     THEN Return(r, last, Emitted(sg, inv))
                     ELSE IF fast_returns(really_last)
                     THEN \* debug_assert!(pending_text_streaming_decoder.is_none())
                          Return(IF pending = None THEN "ok" ELSE "panic", last,
                                 Emitted(sg, inv))
                     ELSE /\ raw_input' = s.rest
                          /\ pc' = "slow"
                          /\ seg' = Emitted(sg, inv)
                          /\ UNCHANGED result
           ELSE /\ sinkLog' = <<>>
                /\ raw_input' = input
                /\ pending' = IF pending = None THEN Some(new_decoder(enc)) ELSE pending
                /\ pc' = "loop"
                /\ seg' = sg
                /\ UNCHANGED result

\* The driver turns to the next text node: the record of the finished
\* segment is dropped.  The decoder and the slot are left as they are.  The
\* driver reuses a decoder for another segment only once nothing is pending
\* (after an error it issues flush_pending first).
BeginSegment ==
    /\ pc = "idle"
    /\ seg.over
    /\ pending = None
    /\ sinkLog' = <<>>
    /\ call' = FreshCall
    /\ seg' = FreshSegment
    /\ result' = "none"
    /\ last_in_text_node' = FALSE
    /\ encoding' = shared
    /\ UNCHANGED <<shared, pending, pc, raw_input, slotLog>>

\* TextDecoder::feed_text(input, last, output_handler), up to the fast path.
FeedText(input, last) ==
    /\ pc = "idle"
    /\ ~seg.over
    /\ seg.calls < MaxCalls
    /\ Len(seg.bytes) + Len(input) <= MaxSegLen
    /\ Enter("feed", input, last,
             [seg EXCEPT !.bytes = seg.bytes \o input,
                         !.calls = seg.calls + 1,
                         !.encs = seg.encs \cup {shared}])

\* TextDecoder::flush_pending(output_handler)
FlushPending ==
    /\ pc = "idle"
    /\ IF flush_feeds(pending)
       THEN Enter("flush", <<>>, TRUE, seg)
       ELSE /\ result' = "ok"
            /\ sinkLog' = <<>>
            /\ call' = [call EXCEPT !.kind = "flush", !.prev = call.kind,
                                    !.input = <<>>, !.last = TRUE,
                                    !.pendingAtEntry = FALSE]
            /\ seg' = [seg EXCEPT !.over = TRUE]
            /\ UNCHANGED <<shared, pending, pc, raw_input, last_in_text_node,
                           encoding, slotLog>>

\* feed_text lines 55-57: get_or_insert_with, after the fast path has
\* invoked the sink
InsertDecoder ==
    /\ pc = "slow"
    /\ pending' = IF pending = None THEN Some(new_decoder(encoding)) ELSE pending
    /\ pc' = "loop"
    /\ UNCHANGED <<shared, raw_input, last_in_text_node, encoding, result,
                   sinkLog, call, seg, slotLog>>

\* feed_text lines 59-86: one iteration of the loop
LoopStep ==
    /\ pc = "loop"
    /\ LET d == decode_to_str(pending[1], raw_input, TextBufferLen, last_in_text_node)
           finished_decoding == is_finished_decoding(d.status)
           really_last == loop_really_last(last_in_text_node, finished_decoding)
           finish(sg) ==
               IF finished_decoding
               THEN /\ pending' = IF clears_pending(last_in_text_node)
                                  THEN None ELSE Some(d.dec)
                    /\ Return("ok", last_in_text_node, sg)
               ELSE /\ pending' = Some(d.dec)
                    /\ raw_input' = advance(raw_input, d.read)
                    /\ seg' = sg
                    /\ UNCHANGED <<pc, result>>
       IN  /\ UNCHANGED <<shared, last_in_text_node, encoding, call, slotLog>>
           /\ IF loop_emits(d.written, last_in_text_node)
              THEN \E r \in SinkResults :
                     LET inv == Invocation(d.written, really_last,
                                           sink_encoding(encoding), r) IN
                     /\ sinkLog' = Append(sinkLog, inv)
                     /\ IF propagates(r)
                        THEN /\ pending' = pending_after_error(d.dec, last_in_text_node)
                             /\ Return(r, last_in_text_node, Emitted(seg, inv))
                        ELSE finish(Emitted(seg, inv))
              ELSE /\ sinkLog' = sinkLog
                   /\ finish(seg)

Next ==
    \/ \E e \in Encodings : Set(e)
    \/ \E input \in BoundedSeq(Bytes, MaxSegLen), last \in BOOLEAN : FeedText(input, last)
    \/ FlushPending
    \/ BeginSegment
    \/ InsertDecoder
    \/ LoopStep

Spec == Init /\ [][Next]_vars

\* ---------------------------------------------------------- properties
\* The sink invocations of the latest call.
CallLog == sinkLog

NoFailure(log) == \A i \in DOMAIN log : log[i].res = "ok"

RECURSIVE Concat(_)
Concat(log) ==
    IF log = <<>> THEN <<>>
    ELSE Concat(Take(log, Len(log) - 1)) \o log[Len(log)].text

\* What the codec makes of the whole byte string, fed as one last chunk
\* into an output buffer that holds all of it.
WholeText(enc, bytes) ==
    decode_to_str(new_decoder(enc), bytes, MaxUnit * (Len(bytes) + 1), TRUE).written

\* Entirely valid UTF-8 under UTF-8, entirely ASCII under another encoding.
FullyValid(enc, raw) ==
    IF enc = UTF_8 THEN utf8_valid_up_to(raw, 0) = Len(raw)
    ELSE ascii_valid_up_to(raw, 0) = Len(raw)

\* A segment that has been driven to its end with a sink that never failed:
\* its last feed_text was a last chunk, or flush_pending followed.
SegmentDone ==
    /\ pc = "idle"
    /\ seg.over
    /\ seg.calls >= 1
    /\ ~seg.failed

\* C1: over a segment driven to its end with a sink that never fails, the
\* sink is invoked with is_last = true exactly once, and that invocation is
\* the last one of the segment; every other invocation has is_last = false.
C1_ExactlyOnceLast ==
    SegmentDone =>
        /\ seg.lasts = 1
        /\ seg.endsLast

\* A two-call segment whose last call needed several turns of the loop.
C1_Witness ==
    /\ SegmentDone
    /\ seg.calls = 2
    /\ call.kind = "feed"
    /\ call.last
    /\ Len(CallLog) >= 2
    /\ Len(seg.text) > Len(Concat(CallLog))

\* C2: however a byte string is split into chunks (the encoding being the
\* same at every call), the texts handed to the sink concatenate to the text
\* the codec produces for the whole byte string fed as a single last chunk.
C2_ChunkedEqualsWhole ==
    (SegmentDone /\ Cardinality(seg.encs) = 1) =>
        \A e \in seg.encs : seg.text = WholeText(e, seg.bytes)

\* A two-byte character split across two calls, non-last then last.
C2_Witness ==
    /\ SegmentDone
    /\ seg.encs = {UTF_8}
    /\ seg.calls = 2
    /\ call.kind = "feed"
    /\ call.last
    /\ call.pendingAtEntry
    /\ Len(call.input) = 1
    /\ IsCont(call.input[1])
    /\ Len(seg.bytes) = 2
    /\ IsLead2(seg.bytes[1])
    /\ seg.text = seg.bytes
    /\ Concat(CallLog) = seg.bytes

\* A segment one byte longer than the scratch buffer, fed in one call whose
\* valid prefix fills the buffer: the prefix leaves by the fast path and the
\* rest by the loop.
C2_WitnessBoundary ==
    /\ SegmentDone
    /\ seg.calls = 1
    /\ Len(seg.bytes) = TextBufferLen + 1
    /\ Len(sinkLog) >= 2
    /\ sinkLog[1].text = Take(seg.bytes, TextBufferLen)

\* C3: one feed_text with last = true, nothing pending, on input that is
\* entirely valid (UTF-8) or entirely ASCII (other encodings) invokes the sink
\* exactly once, with the input as text, is_last = true and the active
\* encoding, and leaves nothing pending.
C3_SingleChunkFastPath ==
    (/\ pc = "idle"
     /\ call.kind = "feed"
     /\ ~call.pendingAtEntry
     /\ call.last
     /\ FullyValid(call.sharedAtEntry, call.input)) =>
        /\ Len(CallLog) = 1
        /\ CallLog[1].text = call.input
        /\ CallLog[1].is_last
        /\ CallLog[1].enc = call.sharedAtEntry
        /\ pending = None

C3_Witness ==
    /\ pc = "idle"
    /\ call.kind = "feed"
    /\ ~call.pendingAtEntry
    /\ call.last
    /\ call.sharedAtEntry = UTF_8
    /\ Len(call.input) = 3
    /\ IsLead2(call.input[2])
    /\ FullyValid(UTF_8, call.input)
    /\ result = "ok"
    /\ Len(CallLog) = 1

\* C4: feed_text with empty input and last = false while nothing is pending
\* invokes the sink zero times and returns success.
C4_EmptyNonLastIsNoOp ==
    (/\ pc = "idle"
     /\ call.kind = "feed"
     /\ ~call.pendingAtEntry
     /\ ~call.last
     /\ call.input = <<>>) =>
        /\ Len(CallLog) = 0
        /\ result = "ok"

\* C5 as stated: feed_text with empty input and last = true while nothing is
\* pending invokes the sink zero times.
C5_EmptyLastInvokesNothing ==
    (/\ pc = "idle"
     /\ call.kind = "feed"
     /\ ~call.pendingAtEntry
     /\ call.last
     /\ call.input = <<>>) =>
        Len(CallLog) = 0

\* C5, amended: feed_text with empty input and last = true while nothing is
\* pending invokes the sink exactly once, with empty text and is_last = true.
C5_EmptyLastSignalsEnd ==
    (/\ pc = "idle"
     /\ call.kind = "feed"
     /\ ~call.pendingAtEntry
     /\ call.last
     /\ call.input = <<>>) =>
        /\ Len(CallLog) = 1
        /\ CallLog[1].text = <<>>
        /\ CallLog[1].is_last

C5_Witness ==
    /\ pc = "idle"
    /\ call.kind = "feed"
    /\ ~call.pendingAtEntry
    /\ call.last
    /\ call.input = <<>>
    /\ result = "ok"
    /\ CallLog = <<Invocation(<<>>, TRUE, call.sharedAtEntry, "ok")>>

\* C6: flush_pending while nothing is pending is a no-op: the sink is not
\* invoked, the call returns success, nothing becomes pending and the slot
\* keeps its encoding.
C6_FlushNoOp ==
    [][(/\ pc = "idle"
        /\ pending = None
        /\ call'.kind = "flush"
        /\ call' # call) =>
           /\ sinkLog' = <<>>
           /\ seg'.text = seg.text
           /\ seg'.lasts = seg.lasts
           /\ result' = "ok"
           /\ pending' = None
           /\ shared' = shared
           /\ pc' = "idle"]_vars

\* A second flush_pending right after one that completed a pending decode.
C6_Witness ==
    /\ pc = "idle"
    /\ call.kind = "flush"
    /\ call.prev = "flush"
    /\ ~call.pendingAtEntry
    /\ result = "ok"
    /\ seg.calls >= 1
    /\ seg.lasts = 1
    /\ ~seg.failed

\* C7: with a decode pending, flush_pending (or feed_text with empty input
\* and last = true) and a sink that does not fail invokes the sink at least
\* once, the final invocation carries is_last = true, and nothing is pending
\* when the call returns.
C7_FlushCompletes ==
    (/\ pc = "idle"
     /\ call.kind \in {"feed", "flush"}
     /\ call.pendingAtEntry
     /\ call.last
     /\ call.input = <<>>
     /\ NoFailure(CallLog)) =>
        /\ Len(CallLog) >= 1
        /\ CallLog[Len(CallLog)].is_last
        /\ pending = None

\* flush_pending has turned a buffered lead byte into U+FFFD.
C7_Witness ==
    /\ pc = "idle"
    /\ call.kind = "flush"
    /\ call.pendingAtEntry
    /\ result = "ok"
    /\ Len(CallLog) = 1
    /\ CallLog[1].text = REPLACEMENT
    /\ CallLog[1].is_last
    /\ pending = None

\* C8: a sink error ends the call: the failing invocation is the last one of
\* the call, and the call returns that error.
C8_ErrorPropagates ==
    \A i \in DOMAIN CallLog :
        CallLog[i].res # "ok" =>
            /\ i = Len(CallLog)
            /\ pc = "idle"
            /\ result = CallLog[i].res

\* The sink failed in a later turn of the loop, with input left over.
C8_Witness ==
    /\ pc = "idle"
    /\ Len(CallLog) >= 2
    /\ CallLog[Len(CallLog)].res = "E2"
    /\ result = "E2"

\* The sink failed on the fast path.
C8_WitnessFast ==
    /\ pc = "idle"
    /\ call.kind = "feed"
    /\ ~call.pendingAtEntry
    /\ pending = None
    /\ Len(CallLog) = 1
    /\ result = "E1"

\* C9: when the sink succeeds on every invocation, the call returns success,
\* whatever the input and whatever last is.
C9_OnlySinkFails ==
    (/\ pc = "idle"
     /\ call.kind \in {"feed", "flush"}
     /\ NoFailure(CallLog)) =>
        result = "ok"

\* A call on malformed input after an incomplete sequence was buffered.
C9_Witness ==
    /\ pc = "idle"
    /\ call.kind = "feed"
    /\ call.pendingAtEntry
    /\ call.input # <<>>
    /\ ~FullyValid(UTF_8, seg.bytes)
    /\ NoFailure(CallLog)
    /\ result = "ok"
    /\ \E i \in DOMAIN CallLog : CallLog[i].text = REPLACEMENT

\* C10: a set during a call does not reach that call: every sink invocation of
\* the call gets the encoding the slot held at entry, a decoder created by
\* the call is one for that encoding, and a decoder is never exchanged for
\* one of another encoding while the call runs.
C10_SetDoesNotReachCall ==
    [][/\ \A i \in DOMAIN sinkLog' :
              sinkLog'[i].enc = call'.sharedAtEntry
       /\ (pending = None /\ pending' # None) =>
              pending'[1].enc = call'.sharedAtEntry
       /\ (pending # None /\ pending' # None) =>
              pending'[1].enc = pending[1].enc]_vars

\* The slot was set after an invocation of a call that still has bytes to
\* decode.
C10_Witness ==
    /\ pc = "loop"
    /\ shared # call.sharedAtEntry
    /\ Len(CallLog) >= 1
    /\ raw_input # <<>>
    /\ pending[1].enc = call.sharedAtEntry

\* C11: in every feed_text call, with or without a decode pending at entry,
\* the bytes are decoded with the encoding the slot held when the call
\* started: the decoder the loop runs is one for that encoding (which is also
\* the encoding handed to the sink).
C11_DecodesWithEntryEncoding ==
    pc = "loop" => pending[1].enc = call.sharedAtEntry

\* C12: whatever the interleaving of set calls with the reads of the slot,
\* a get returns the encoding given to new or one given to a set that has
\* started; the slot never holds anything else.
C12_GetReturnsStored ==
    /\ shared \in slotLog.stored
    /\ encoding \in slotLog.stored
    /\ call.sharedAtEntry \in slotLog.stored

\* A call read the slot, and a set replaced the encoding while the call was
\* still running.
C12_Witness ==
    /\ pc = "loop"
    /\ Cardinality(slotLog.stored) = 2
    /\ encoding # shared
    /\ encoding \in slotLog.stored

\* C13: a get returns the argument of the most recent set, or of new when
\* there was none: every call that reads the slot at its entry reads the
\* encoding given most recently.
C13_GetReturnsLatest ==
    [][(pc = "idle" /\ (seg'.calls = seg.calls + 1 \/ pc' # "idle")) =>
           encoding' = slotLog.latest]_vars

\* A call has read an encoding that a set had stored over another one.
C13_Witness ==
    /\ pc = "idle"
    /\ call.kind = "feed"
    /\ Cardinality(slotLog.stored) = 2
    /\ call.sharedAtEntry = slotLog.latest
    /\ encoding = slotLog.latest
    /\ sinkLog # <<>>
    /\ sinkLog[1].enc = slotLog.latest

\* A step in which the sink is not invoked and no new segment begins.
NoInvocation ==
    /\ seg'.text = seg.text
    /\ seg'.lasts = seg.lasts
    /\ seg'.endsLast = seg.endsLast
    /\ sinkLog' \in {sinkLog, <<>>}

C16_ClearedExactlyAtSegmentEnd ==
    pc = "idle" =>
        /\ (call.kind \in {"feed", "flush"} /\ call.last /\ result = "ok")
               => pending = None
        /\ (call.kind = "feed" /\ ~call.last /\ call.pendingAtEntry)
               => pending # None

\* A final chunk that found a decode pending from an earlier non-last chunk
\* has returned success and cleared it.
C16_Witness ==
    /\ pc = "idle"
    /\ call.kind = "feed"
    /\ call.last
    /\ call.pendingAtEntry
    /\ call.prev = "feed"
    /\ result = "ok"
    /\ pending = None

\* The length of the longest prefix the fast path accepts: valid UTF-8 for
\* UTF-8, ASCII for any other encoding.
ValidPrefixLen(enc, raw) ==
    IF enc = UTF_8 THEN utf8_valid_up_to(raw, 0) ELSE ascii_valid_up_to(raw, 0)

\* C17: a feed_text that starts with no decode pending invokes the sink from
\* the fast path iff the longest valid prefix covers the whole input or is
\* at least as long as the scratch buffer.  Otherwise nothing is invoked on
\* entry and the whole input goes to the streaming decoder.  A prefix
\* shorter than the input is passed in one invocation with is_last=false,
\* and the remaining bytes go to the streaming loop.
C17_FastPathThreshold ==
    [][(pc = "idle" /\ pending = None /\ seg'.calls = seg.calls + 1) =>
          LET input == call'.input
              v == ValidPrefixLen(shared, input)
          IN  IF v = Len(input) \/ v >= TextBufferLen
              THEN /\ Len(sinkLog') = 1
                   /\ sinkLog'[1].text = Take(input, v)
                   /\ v < Len(input) =>
                        /\ ~sinkLog'[1].is_last
                        /\ sinkLog'[1].res = "ok" =>
                             /\ pc' = "slow"
                             /\ raw_input' = Drop(input, v)
                             /\ pending' = None
              ELSE /\ sinkLog' = <<>>
                   /\ pc' = "loop"
                   /\ raw_input' = input
                   /\ pending' # None]_vars

\* A prefix as long as the scratch buffer, shorter than the input, has been
\* emitted as non-last and the streaming loop has then decoded the rest.
C17_Witness ==
    /\ pc = "idle"
    /\ call.kind = "feed"
    /\ ~call.pendingAtEntry
    /\ ValidPrefixLen(call.sharedAtEntry, call.input) >= TextBufferLen
    /\ ValidPrefixLen(call.sharedAtEntry, call.input) < Len(call.input)
    /\ Len(sinkLog) >= 2
    /\ Len(sinkLog[1].text) = ValidPrefixLen(call.sharedAtEntry, call.input)
    /\ ~sinkLog[1].is_last
    /\ result = "ok"

\* The fast path has been declined: a valid prefix shorter than the input
\* and than the scratch buffer, and the call is in the streaming loop.
C17_WitnessDeclined ==
    /\ pc = "loop"
    /\ call.kind = "feed"
    /\ ~call.pendingAtEntry
    /\ ValidPrefixLen(call.sharedAtEntry, call.input) >= 1
    /\ ValidPrefixLen(call.sharedAtEntry, call.input) < Len(call.input)
    /\ ValidPrefixLen(call.sharedAtEntry, call.input) < TextBufferLen
    /\ raw_input = call.input
    /\ sinkLog = <<>>

\* The latest call took the fast path on entry.
FastPathTaken ==
    /\ ~call.pendingAtEntry
    /\ LET v == ValidPrefixLen(call.sharedAtEntry, call.input)
       IN  v = Len(call.input) \/ v >= TextBufferLen

\* The latest call reached the streaming loop before it returned.
EnteredLoop == ~FastPathTaken \/ Len(sinkLog) >= 2

\* C18: after a call that returned a sink error, a decode is pending if one
\* was pending when the call started or the call had entered the streaming
\* loop, also when the call was a last chunk; if the error came from the
\* fast-path invocation with no decode pending, none is pending.
C18_NoCleanupOnError ==
    (pc = "idle" /\ result \in SinkErrors) =>
        /\ (call.pendingAtEntry \/ EnteredLoop) => pending # None
        /\ (FastPathTaken /\ Len(sinkLog) = 1) => pending = None

\* A last chunk that started with nothing pending has failed in the
\* streaming loop and left a decoder behind.
C18_Witness ==
    /\ pc = "idle"
    /\ result \in SinkErrors
    /\ call.kind = "feed"
    /\ call.last
    /\ ~call.pendingAtEntry
    /\ EnteredLoop
    /\ pending # None

\* The fast-path invocation has failed with nothing pending.
C18_WitnessFast ==
    /\ pc = "idle"
    /\ result \in SinkErrors
    /\ FastPathTaken
    /\ Len(sinkLog) = 1
    /\ call.input # <<>>
    /\ pending = None

\* C19: an iteration of the streaming loop invokes the sink iff the codec
\* wrote at least one byte or the call is the final chunk; the text passed
\* is what the codec wrote and is_last is true iff the call is the final
\* chunk and the codec reported input exhausted; so a non-last call never
\* passes empty text from the loop.
C19_LoopInvocation ==
    [][(pc = "loop" /\ shared' = shared) =>
          LET d == decode_to_str(pending[1], raw_input, TextBufferLen,
                                 last_in_text_node)
              invoked == Len(d.written) > 0 \/ last_in_text_node
          IN  IF invoked
              THEN /\ Len(sinkLog') = Len(sinkLog) + 1
                   /\ SubSeq(sinkLog', 1, Len(sinkLog)) = sinkLog
                   /\ LET inv == sinkLog'[Len(sinkLog')] IN
                      /\ inv.text = d.written
                      /\ inv.is_last = (last_in_text_node /\ d.status = InputEmpty)
                      /\ ~last_in_text_node => inv.text # <<>>
              ELSE sinkLog' = sinkLog]_vars

\* A final chunk has gone through the loop in two iterations: output full
\* with is_last=false, then input exhausted with is_last=true.
C19_Witness ==
    /\ pc = "idle"
    /\ call.kind = "feed"
    /\ call.last
    /\ ~FastPathTaken
    /\ Len(sinkLog) = 2
    /\ ~sinkLog[1].is_last
    /\ sinkLog[1].text # <<>>
    /\ sinkLog[2].is_last
    /\ result = "ok"

\* A non-last call has gone through the loop without invoking the sink:
\* the codec buffered its input and wrote nothing.
C19_WitnessSilent ==
    /\ pc = "idle"
    /\ call.kind = "feed"
    /\ ~call.last
    /\ call.input # <<>>
    /\ ~FastPathTaken
    /\ sinkLog = <<>>
    /\ result = "ok"

\* feed_text and flush_pending are sequential code: once called, the steps
\* of the call are taken until it returns.  The sink returns (its result is
\* chosen within the step that invokes it).
LiveSpec == Spec /\ WF_vars(InsertDecoder) /\ WF_vars(LoopStep)

\* C20: every feed_text and flush_pending call returns: a call that is in
\* progress eventually ends, with input exhausted or with a sink error.
C20_CallsTerminate ==
    (pc # "idle") ~> (pc = "idle" /\ result \in SinkResults)

\* C20, the loop's progress: an iteration that does not return strictly
\* advances, by consuming input or, with the input untouched, by draining
\* what the codec had buffered.
C20_LoopAdvances ==
    [][(pc = "loop" /\ shared' = shared /\ pc' = "loop") =>
          \/ Len(raw_input') < Len(raw_input)
          \/ /\ raw_input' = raw_input
             /\ Len(pending'[1].buf) < Len(pending[1].buf)]_vars

\* A call has returned after more than one iteration of the loop: the
\* first reported output full and the loop went on with the rest.
C20_Witness ==
    /\ pc = "idle"
    /\ call.kind \in {"feed", "flush"}
    /\ ~FastPathTaken
    /\ Len(sinkLog) >= 2
    /\ result \in SinkResults

====
